---- MODULE Spec2Model ----
(***************************************************************************)
(* Model of the NeedsPyramidTracker React component                        *)
(* (src/pyramid-tracker/src/app/needsPyramidTracker.tsx, lines 263-325):   *)
(* its three pieces of persisted state, the three useEffect hooks, the     *)
(* event handlers, and browser localStorage.                               *)
(*                                                                         *)
(* Text (localStorage values, display names) is a sequence of one-char     *)
(* strings, so JSON.stringify and JSON.parse are computed character by     *)
(* character.  An optional value (a storage entry, a queued setState) is a *)
(* sequence of length 0 (none) or 1 (some).                                *)
(***************************************************************************)
EXTENDS Integers, Sequences, FiniteSets, TLC

\* ------------------------------------------------------------------ bounds
\* Number of user events (slider change, name edit, save click, reset)
\* explored after the first mount; also the range of the clock.
MaxClock == 4

\* ------------------------------------------------------- program constants
\* LEVELS.length: the six dimensions.
NumLevels == 6
\* LEVELS.map(() => 50)
DefaultValue == 50
\* <Slider max={100} step={1}> (min defaults to 0)
SliderMax == 100

ValuesKey == "needsPyramidValues"
HistoryKey == "needsPyramidHistory"
UserNameKey == "needsPyramidUserName"
Keys == {ValuesKey, HistoryKey, UserNameKey}

\* JavaScript values that are not numbers, as they occur in arrays:
\* null (from JSON.parse) and a hole of a sparse array (undefined).
Null == -1
Undefined == -2

DefaultLevelValues == [i \in 1..NumLevels |-> DefaultValue]

\* ------------------------------------------------------------ input samples
\* Values a slider can deliver: both ends of its range (one and three
\* digits in JSON); the default 50 has two digits.
SliderValues == {0, SliderMax}
\* Texts typed into the name field: empty, blank, plain, padded, and one
\* with a character JSON has to escape.
NameSamples == { <<>>, <<" ">>, <<"A">>, <<" ", "A">>, <<"A", "\"">> }

\* ------------------------------------------------------------------- text
None == <<>>
Some(x) == <<x>>
IsSome(o) == Len(o) = 1
Get(o) == o[1]

Digits == <<"0", "1", "2", "3", "4", "5", "6", "7", "8", "9">>
IsDigit(c) == \E d \in 1..10 : Digits[d] = c
DigitValue(c) == (CHOOSE d \in 1..10 : Digits[d] = c) - 1

\* String.prototype.trim, on the whitespace the samples can contain.
IsSpace(c) == c \in {" ", "\t", "\n", "\r"}
RECURSIVE TrimStart(_)
TrimStart(t) ==
  IF t # <<>> /\ IsSpace(Head(t)) THEN TrimStart(Tail(t)) ELSE t
RECURSIVE TrimEnd(_)
TrimEnd(t) ==
  IF t # <<>> /\ IsSpace(t[Len(t)]) THEN TrimEnd(SubSeq(t, 1, Len(t) - 1)) ELSE t
Trim(t) == TrimEnd(TrimStart(t))

\* --------------------------------------------------------- JSON.stringify
RECURSIVE NumberToText(_)
NumberToText(n) ==
  IF n < 10 THEN <<Digits[n + 1]>>
  ELSE NumberToText(n \div 10) \o <<Digits[(n % 10) + 1]>>

NullText == <<"n", "u", "l", "l">>

\* An array element: a number, or null for null and for a hole.
StringifyElement(x) == IF x \in {Null, Undefined} THEN NullText ELSE NumberToText(x)

RECURSIVE JoinElements(_, _)
JoinElements(arr, i) ==
  IF i > Len(arr) THEN <<>>
  ELSE (IF i > 1 THEN <<",">> ELSE <<>>) \o StringifyElement(arr[i]) \o JoinElements(arr, i + 1)

\* JSON.stringify(number[])
StringifyArray(arr) == <<"[">> \o JoinElements(arr, 1) \o <<"]">>

RECURSIVE EscapeChars(_)
EscapeChars(t) ==
  IF t = <<>> THEN <<>>
  ELSE (IF Head(t) \in {"\"", "\\"} THEN <<"\\", Head(t)>> ELSE <<Head(t)>>) \o EscapeChars(Tail(t))

\* JSON.stringify(string)
StringifyString(t) == <<"\"">> \o EscapeChars(t) \o <<"\"">>

DateKeyText == <<"\"", "d", "a", "t", "e", "\"", ":">>
ValuesKeyText == <<"\"", "v", "a", "l", "u", "e", "s", "\"", ":">>
UserNameKeyText == <<"\"", "u", "s", "e", "r", "N", "a", "m", "e", "\"", ":">>

\* JSON.stringify(Snapshot): the keys in the order the object literal
\* creates them.
StringifySnapshot(s) ==
  <<"{">> \o DateKeyText \o StringifyString(s.date) \o <<",">>
          \o ValuesKeyText \o StringifyArray(s.values) \o <<",">>
          \o UserNameKeyText \o StringifyString(s.userName) \o <<"}">>

RECURSIVE JoinSnapshots(_, _)
JoinSnapshots(h, i) ==
  IF i > Len(h) THEN <<>>
  ELSE (IF i > 1 THEN <<",">> ELSE <<>>) \o StringifySnapshot(h[i]) \o JoinSnapshots(h, i + 1)

\* JSON.stringify(Snapshot[])
StringifyHistory(h) == <<"[">> \o JoinSnapshots(h, 1) \o <<"]">>

\* ------------------------------------------------------------- JSON.parse
\* A parse result: ok, the value, and the index after the parsed text.
\* JSON.parse throws a SyntaxError where ok is FALSE.  The grammar covers
\* what the storage entries can hold: arrays of non-negative integers and
\* null, strings, and arrays of snapshot objects, without white space.
Fail == [ok |-> FALSE, val |-> <<>>, next |-> 0]
Ok(v, n) == [ok |-> TRUE, val |-> v, next |-> n]

At(t, i) == IF i <= Len(t) THEN t[i] ELSE ""
StartsWith(t, i, lit) ==
  /\ i + Len(lit) - 1 <= Len(t)
  /\ SubSeq(t, i, i + Len(lit) - 1) = lit

\* Variant: the accumulator is not shifted by a decimal place.
RECURSIVE ParseDigits_NoShift(_, _, _)
ParseDigits_NoShift(t, i, acc) ==
  IF IsDigit(At(t, i)) THEN ParseDigits_NoShift(t, i + 1, acc + DigitValue(t[i]))
  ELSE Ok(acc, i)

RECURSIVE ParseDigits(_, _, _)
ParseDigits(t, i, acc) ==
  IF IsDigit(At(t, i)) THEN ParseDigits(t, i + 1, 10 * acc + DigitValue(t[i]))
  ELSE Ok(acc, i)

\* A JSON number: "0", or a non-zero digit followed by digits.
ParseNumber(t, i) ==
  IF ~IsDigit(At(t, i)) THEN Fail
  ELSE IF t[i] = "0" THEN Ok(0, i + 1)
  ELSE ParseDigits(t, i, 0)

ParseElement(t, i) ==
  IF StartsWith(t, i, NullText) THEN Ok(Null, i + Len(NullText))
  ELSE ParseNumber(t, i)

RECURSIVE ParseElements(_, _, _)
ParseElements(t, i, acc) ==
  LET e == ParseElement(t, i) IN
  IF ~e.ok THEN Fail
  ELSE IF At(t, e.next) = "," THEN ParseElements(t, e.next + 1, Append(acc, e.val))
  ELSE IF At(t, e.next) = "]" THEN Ok(Append(acc, e.val), e.next + 1)
  ELSE Fail

ParseArrayAt(t, i) ==
  IF At(t, i) # "[" THEN Fail
  ELSE IF At(t, i + 1) = "]" THEN Ok(<<>>, i + 2)
  ELSE ParseElements(t, i + 1, <<>>)

RECURSIVE ParseChars(_, _, _)
ParseChars(t, i, acc) ==
  IF i > Len(t) THEN Fail
  ELSE IF t[i] = "\"" THEN Ok(acc, i + 1)
  ELSE IF t[i] = "\\"
       THEN IF At(t, i + 1) \in {"\"", "\\"}
            THEN ParseChars(t, i + 2, Append(acc, t[i + 1]))
            ELSE Fail
  ELSE ParseChars(t, i + 1, Append(acc, t[i]))

ParseStringAt(t, i) ==
  IF At(t, i) # "\"" THEN Fail ELSE ParseChars(t, i + 1, <<>>)

ParseSnapshotAt(t, i) ==
  IF ~StartsWith(t, i, <<"{">> \o DateKeyText) THEN Fail
  ELSE LET d == ParseStringAt(t, i + 1 + Len(DateKeyText)) IN
  IF ~d.ok \/ ~StartsWith(t, d.next, <<",">> \o ValuesKeyText) THEN Fail
  ELSE LET v == ParseArrayAt(t, d.next + 1 + Len(ValuesKeyText)) IN
  IF ~v.ok \/ ~StartsWith(t, v.next, <<",">> \o UserNameKeyText) THEN Fail
  ELSE LET u == ParseStringAt(t, v.next + 1 + Len(UserNameKeyText)) IN
  IF ~u.ok \/ At(t, u.next) # "}" THEN Fail
  ELSE Ok([date |-> d.val, values |-> v.val, userName |-> u.val], u.next + 1)

RECURSIVE ParseSnapshots(_, _, _)
ParseSnapshots(t, i, acc) ==
  LET s == ParseSnapshotAt(t, i) IN
  IF ~s.ok THEN Fail
  ELSE IF At(t, s.next) = "," THEN ParseSnapshots(t, s.next + 1, Append(acc, s.val))
  ELSE IF At(t, s.next) = "]" THEN Ok(Append(acc, s.val), s.next + 1)
  ELSE Fail

\* The whole text has to be one value.
Whole(t, r) == IF r.ok /\ r.next = Len(t) + 1 THEN r ELSE Fail

\* JSON.parse of the rating entry.
ParseArray(t) == Whole(t, ParseArrayAt(t, 1))

\* JSON.parse of the history entry.
ParseHistory(t) ==
  Whole(t, IF At(t, 1) # "[" THEN Fail
           ELSE IF At(t, 2) = "]" THEN Ok(<<>>, 3)
           ELSE ParseSnapshots(t, 2, <<>>))

\* ---------------------------------------------------------------- Date
\* new Date().toISOString(): the wall clock as text.  The clock counts user
\* events; the text is abbreviated to the clock's digits and the zone "Z".
ToISOString(t) == NumberToText(t) \o <<"Z">>

\* ------------------------------------------------------------------ state
VARIABLES
  storage,      \* localStorage: key -> None | Some(text)
  levelValues,  \* useState<number[]>: the rendered rating vector
  history,      \* useState<Snapshot[]>: the rendered history
  userName,     \* useState<string>: the rendered display name
  queued,       \* setState calls not yet rendered, per state variable
  effects,      \* effects of the current commit that have not run yet
  crashed,      \* an effect threw: React has unmounted the component
  clock,        \* wall clock, one tick per user event
  last,         \* the last user event (or mount / reload)
  pre,          \* memory and storage just before the last user event
  boot          \* the rating entry found in storage at the first mount

vars == <<storage, levelValues, history, userName, queued, effects, crashed,
          clock, last, pre, boot>>

NoUpdates == [levelValues |-> None, history |-> None, userName |-> None]

\* The three useEffect hooks in the order they are declared; all of them run
\* after the first render.
MountEffects == <<"load", "persistValues", "persistName">>

Event(op, i, v, c) == [op |-> op, index |-> i, value |-> v, confirmed |-> c]

Memory == [levelValues |-> levelValues, history |-> history, userName |-> userName]
Observed == [levelValues |-> levelValues, history |-> history,
             userName |-> userName, storage |-> storage]

\* Nothing is left to run: every update is rendered, every effect has run.
Quiescent == effects = <<>> /\ queued = NoUpdates

\* The component function up to its first render: the useState initialisers.
InitWith(b) ==
  /\ storage = [k \in Keys |-> IF k = ValuesKey THEN b ELSE None]
  /\ levelValues = DefaultLevelValues
  /\ history = <<>>
  /\ userName = <<>>
  /\ queued = NoUpdates
  /\ effects = MountEffects
  /\ crashed = FALSE
  /\ clock = 0
  /\ last = Event("mount", 0, 0, FALSE)
  /\ pre = [levelValues |-> DefaultLevelValues, history |-> <<>>, userName |-> <<>>,
            storage |-> [k \in Keys |-> IF k = ValuesKey THEN b ELSE None]]
  /\ boot = b

\* First visit: the browser holds nothing for this page.
Init == InitWith(None)

\* Truthiness of localStorage.getItem's result: null and "" are falsy.
Truthy(o) == IsSome(o) /\ Get(o) # <<>>

\* What the load effect makes of the storage st: whether JSON.parse throws,
\* and the setState calls made otherwise (one per entry that is present).
Loaded(st) ==
  LET savedLevelValues == st[ValuesKey]
      savedHistory == st[HistoryKey]
      savedUserName == st[UserNameKey]
      lv == IF Truthy(savedLevelValues) THEN ParseArray(Get(savedLevelValues)) ELSE Fail
      hs == IF Truthy(savedHistory) THEN ParseHistory(Get(savedHistory)) ELSE Fail
      threw == \/ Truthy(savedLevelValues) /\ ~lv.ok
               \/ Truthy(savedHistory) /\ ~hs.ok
  IN  [threw |-> threw,
       updates |-> IF threw THEN NoUpdates
                   ELSE [levelValues |-> IF Truthy(savedLevelValues) THEN Some(lv.val) ELSE None,
                         history |-> IF Truthy(savedHistory) THEN Some(hs.val) ELSE None,
                         userName |-> IF Truthy(savedUserName) THEN Some(Get(savedUserName)) ELSE None]]

\* useEffect(() => {...}, []): load the three entries on mount.  An uncaught
\* SyntaxError makes React unmount the component once the commit is over.
LoadEffect ==
  /\ effects # <<>> /\ Head(effects) = "load"
  /\ crashed' = Loaded(storage).threw
  /\ queued' = Loaded(storage).updates
  /\ effects' = Tail(effects)
  /\ UNCHANGED <<storage, levelValues, history, userName, clock, last, pre, boot>>

\* useEffect(() => {...}, [levelValues]): write the rendered rating vector.
PersistValuesEffect ==
  /\ effects # <<>> /\ Head(effects) = "persistValues"
  /\ storage' = [storage EXCEPT ![ValuesKey] = Some(StringifyArray(levelValues))]
  /\ effects' = Tail(effects)
  /\ UNCHANGED <<levelValues, history, userName, queued, crashed, clock, last, pre, boot>>

\* useEffect(() => {...}, [userName]): write the rendered display name.
PersistNameEffect ==
  /\ effects # <<>> /\ Head(effects) = "persistName"
  /\ storage' = [storage EXCEPT ![UserNameKey] = Some(userName)]
  /\ effects' = Tail(effects)
  /\ UNCHANGED <<levelValues, history, userName, queued, crashed, clock, last, pre, boot>>

\* The effects React runs after a render, from the dependency arrays: every
\* setLevelValues call of the component passes a fresh array, so [levelValues]
\* has changed whenever an update was queued; [userName] is compared by value.
EffectsAfterRender(q) ==
  (IF IsSome(q.levelValues) THEN <<"persistValues">> ELSE <<>>)
  \o (IF IsSome(q.userName) /\ Get(q.userName) # userName THEN <<"persistName">> ELSE <<>>)

\* React re-renders with the queued updates; this happens once the effects
\* of the previous commit have run.
Render ==
  /\ effects = <<>> /\ queued # NoUpdates /\ ~crashed
  /\ levelValues' = IF IsSome(queued.levelValues) THEN Get(queued.levelValues) ELSE levelValues
  /\ history' = IF IsSome(queued.history) THEN Get(queued.history) ELSE history
  /\ userName' = IF IsSome(queued.userName) THEN Get(queued.userName) ELSE userName
  /\ effects' = EffectsAfterRender(queued)
  /\ queued' = NoUpdates
  /\ UNCHANGED <<storage, crashed, clock, last, pre, boot>>

\* A user event is handled when the component is mounted and idle.
CanHandle == Quiescent /\ ~crashed /\ clock < MaxClock

Record(e) ==
  /\ last' = e
  /\ pre' = Observed
  /\ clock' = clock + 1

\* Variant: the index is taken one too far.
ArraySet_OffByOne(arr, i, v) ==
  IF i < Len(arr) THEN [arr EXCEPT ![i + 1] = v] ELSE Append(arr, v)

\* Variant: the value is pushed instead of assigned.
ArraySet_Push(arr, i, v) == Append(arr, v)

\* newValues[index] = value[0] on a copy; an index past the end leaves holes.
ArraySet(arr, i, v) ==
  IF i <= Len(arr) THEN [arr EXCEPT ![i] = v]
  ELSE arr \o [k \in 1..(i - 1 - Len(arr)) |-> Undefined] \o <<v>>

\* Variant: the rendered array is changed in place and is shared with the
\* snapshots that were taken of it.
HandleSliderChange_InPlace(i, v) ==
  /\ CanHandle
  /\ queued' = [queued EXCEPT
       !.levelValues = Some([levelValues EXCEPT ![i] = v]),
       !.history = Some([k \in 1..Len(history) |->
                           IF history[k].values = levelValues
                           THEN [history[k] EXCEPT !.values = [levelValues EXCEPT ![i] = v]]
                           ELSE history[k]])]
  /\ Record(Event("slider", i, v, FALSE))
  /\ UNCHANGED <<storage, levelValues, history, userName, effects, crashed, boot>>

\* handleSliderChange(index, value), for slider index i (1-based here).
HandleSliderChange(i, v) ==
  /\ CanHandle
  /\ queued' = [queued EXCEPT !.levelValues = Some(ArraySet(levelValues, i, v))]
  /\ Record(Event("slider", i, v, FALSE))
  /\ UNCHANGED <<storage, levelValues, history, userName, effects, crashed, boot>>

\* onChange of the name field: setUserName(e.target.value).
HandleNameChange(n) ==
  /\ CanHandle
  /\ queued' = [queued EXCEPT !.userName = Some(n)]
  /\ Record(Event("name", 0, 0, FALSE))
  /\ UNCHANGED <<storage, levelValues, history, userName, effects, crashed, boot>>

\* Variant: the name is tested without trim().
SaveDisabled_NoTrim == userName = <<>>

\* disabled={!userName.trim()}
SaveDisabled == Trim(userName) = <<>>

\* saveSnapshot()
NewSnapshot(now) == [date |-> ToISOString(now), values |-> levelValues, userName |-> userName]
\* Variant: the new snapshot is put in front.
UpdatedHistory_Prepend(now) == <<NewSnapshot(now)>> \o history
UpdatedHistory(now) == Append(history, NewSnapshot(now))

\* Variant: the log is written as it was before the append.
ClickSaveSnapshot_StaleWrite ==
  /\ CanHandle
  /\ IF SaveDisabled
     THEN UNCHANGED <<queued, storage>>
     ELSE /\ queued' = [queued EXCEPT !.history = Some(UpdatedHistory(clock + 1))]
          /\ storage' = [storage EXCEPT ![HistoryKey] = Some(StringifyHistory(history))]
  /\ Record(Event("save", 0, 0, FALSE))
  /\ UNCHANGED <<levelValues, history, userName, effects, crashed, boot>>

\* A click on the Save Snapshot button: a disabled button ignores it.
ClickSaveSnapshot ==
  /\ CanHandle
  /\ IF SaveDisabled
     THEN UNCHANGED <<queued, storage>>
     ELSE /\ queued' = [queued EXCEPT !.history = Some(UpdatedHistory(clock + 1))]
          /\ storage' = [storage EXCEPT ![HistoryKey] = Some(StringifyHistory(UpdatedHistory(clock + 1)))]
  /\ Record(Event("save", 0, 0, FALSE))
  /\ UNCHANGED <<levelValues, history, userName, effects, crashed, boot>>

\* Variant: setUserName('') is missing.
ResetData_KeepsName(confirmed) ==
  /\ CanHandle
  /\ IF confirmed
     THEN /\ queued' = [levelValues |-> Some(DefaultLevelValues),
                        history |-> Some(<<>>),
                        userName |-> None]
          /\ storage' = [k \in Keys |-> None]
     ELSE UNCHANGED <<queued, storage>>
  /\ Record(Event("reset", 0, 0, confirmed))
  /\ UNCHANGED <<levelValues, history, userName, effects, crashed, boot>>

\* Variant: the answer to window.confirm is not looked at.
ResetData_IgnoresAnswer(confirmed) ==
  /\ CanHandle
  /\ queued' = [levelValues |-> Some(DefaultLevelValues),
                history |-> Some(<<>>),
                userName |-> Some(<<>>)]
  /\ storage' = [k \in Keys |-> None]
  /\ Record(Event("reset", 0, 0, confirmed))
  /\ UNCHANGED <<levelValues, history, userName, effects, crashed, boot>>

\* resetData(), with the answer given to window.confirm.
ResetData(confirmed) ==
  /\ CanHandle
  /\ IF confirmed
     THEN /\ queued' = [levelValues |-> Some(DefaultLevelValues),
                        history |-> Some(<<>>),
                        userName |-> Some(<<>>)]
          /\ storage' = [k \in Keys |-> None]
     ELSE UNCHANGED <<queued, storage>>
  /\ Record(Event("reset", 0, 0, confirmed))
  /\ UNCHANGED <<levelValues, history, userName, effects, crashed, boot>>

\* The page is reloaded: the component is constructed and mounted again over
\* the storage as it is.
\* (A reload that directly follows a reload starts from the same memory and
\* storage, so it is taken once.)
Reload ==
  /\ Quiescent
  /\ last.op # "reload"
  /\ levelValues' = DefaultLevelValues
  /\ history' = <<>>
  /\ userName' = <<>>
  /\ effects' = MountEffects
  /\ crashed' = FALSE
  /\ last' = Event("reload", 0, 0, FALSE)
  /\ pre' = Observed
  /\ UNCHANGED <<storage, queued, clock, boot>>

Next ==
  \/ LoadEffect
  \/ PersistValuesEffect
  \/ PersistNameEffect
  \/ Render
  \/ \E i \in 1..NumLevels, v \in SliderValues : HandleSliderChange(i, v)
  \/ \E n \in NameSamples : HandleNameChange(n)
  \/ ClickSaveSnapshot
  \/ \E c \in BOOLEAN : ResetData(c)
  \/ Reload

Spec == Init /\ [][Next]_vars

\* A second specification: the first mount finds a rating entry that may
\* have been written by anything on the same origin.
SixInRange == <<"[", "5", "0", ",", "0", ",", "1", "0", "0", ",", "7", ",", "5", "0", ",", "5", "0", "]">>
ThreeEntries == <<"[", "1", ",", "2", ",", "3", "]">>
OutOfRange == <<"[", "5", "0", ",", "5", "0", ",", "1", "0", "1", ",", "5", "0", ",", "5", "0", ",", "5", "0", "]">>
Malformed == <<"[", "5", "0", ",">>
StoredSamples == {None, Some(SixInRange), Some(ThreeEntries), Some(OutOfRange), Some(Malformed)}

InitStored == \E b \in StoredSamples : InitWith(b)
SpecStored == InitStored /\ [][Next]_vars

\* ================================================================== claims
UserEvents == {"slider", "name", "save", "reset"}
\* The updates queued by the last event have been rendered.
Rendered == queued = NoUpdates
ConfirmedReset == last.op = "reset" /\ last.confirmed
DeclinedReset == last.op = "reset" /\ ~last.confirmed
IsPrefix(h, g) == Len(h) <= Len(g) /\ SubSeq(g, 1, Len(h)) = h

\* C1: after a confirmed reset, once every effect it triggered has run, all
\* three storage keys are absent.
C1_ResetLeavesNoKeys ==
  (ConfirmedReset /\ Quiescent) => \A k \in Keys : storage[k] = None

\* C2: after a confirmed reset, from any reachable state, the rendered rating
\* vector is all 50, the history is empty and the display name is empty.
C2_ResetRestoresDefaults ==
  (ConfirmedReset /\ Rendered) =>
    /\ levelValues = DefaultLevelValues
    /\ history = <<>>
    /\ userName = <<>>

C2_Witness ==
  /\ ConfirmedReset /\ Quiescent
  /\ pre.levelValues # DefaultLevelValues
  /\ pre.history # <<>>
  /\ pre.userName # <<>>

\* C3: a save with a non-blank display name appends exactly one snapshot that
\* holds the rating vector and the display name of that moment, leaves the
\* earlier snapshots alone and writes the whole log to storage; a later
\* slider change or name edit changes no snapshot, in memory or in storage.
C3_SnapshotIsCopy ==
  /\ (last.op = "save" /\ Trim(pre.userName) # <<>> /\ Rendered) =>
       /\ Len(history) = Len(pre.history) + 1
       /\ IsPrefix(pre.history, history)
       /\ history[Len(history)].values = pre.levelValues
       /\ history[Len(history)].userName = pre.userName
       /\ IsSome(storage[HistoryKey])
       /\ ParseHistory(Get(storage[HistoryKey])).ok
       /\ ParseHistory(Get(storage[HistoryKey])).val = history
  /\ (last.op \in {"slider", "name"}) =>
       /\ history = pre.history
       /\ queued.history = None
       /\ storage[HistoryKey] = pre.storage[HistoryKey]

C3_Witness ==
  /\ last.op = "slider" /\ Quiescent
  /\ history # <<>>
  /\ history[Len(history)].values = pre.levelValues
  /\ levelValues # pre.levelValues
  /\ IsSome(storage[HistoryKey])

\* C4: after a slider change at index i with value v the rendered rating
\* vector holds v at i and its former values everywhere else; the history
\* and the display name are unchanged.
C4_SliderSetsOneEntry ==
  (last.op = "slider" /\ Rendered) =>
    /\ Len(levelValues) = Len(pre.levelValues)
    /\ levelValues[last.index] = last.value
    /\ \A j \in 1..Len(levelValues) :
         j # last.index => levelValues[j] = pre.levelValues[j]
    /\ history = pre.history
    /\ userName = pre.userName

C4_Witness ==
  /\ last.op = "slider" /\ Quiescent
  /\ levelValues[last.index] # pre.levelValues[last.index]
  /\ \E j \in 1..NumLevels : j # last.index /\ levelValues[j] # DefaultValue

\* C5: with an empty or blank display name a click on save changes nothing:
\* not the history, not the stored history entry.
C5_BlankNameSaveIsNoOp ==
  (last.op = "save" /\ Trim(pre.userName) = <<>>) =>
    /\ history = pre.history
    /\ queued.history = None
    /\ storage[HistoryKey] = pre.storage[HistoryKey]

C5_Witness ==
  /\ last.op = "save" /\ Quiescent
  /\ pre.userName = <<" ">>
  /\ pre.history # <<>>

\* C6: when the rating entry holds the vector V the component persisted, a
\* reload (mount, with every effect run) leaves V in memory and in storage.
C6_RoundTrip ==
  (/\ last.op = "reload" /\ Quiescent
   /\ pre.storage[ValuesKey] = Some(StringifyArray(pre.levelValues))) =>
    /\ ~crashed
    /\ levelValues = pre.levelValues
    /\ storage[ValuesKey] = pre.storage[ValuesKey]

C6_Witness ==
  /\ last.op = "reload" /\ Quiescent
  /\ pre.storage[ValuesKey] = Some(StringifyArray(pre.levelValues))
  /\ \E i, j \in 1..NumLevels : pre.levelValues[i] = 0 /\ pre.levelValues[j] = SliderMax

\* C7: a declined reset changes neither the rating vector, the history, the
\* display name nor any storage entry.
C7_DeclinedResetChangesNothing ==
  DeclinedReset => Observed = pre /\ Quiescent

C7_Witness ==
  /\ DeclinedReset
  /\ pre.levelValues # DefaultLevelValues
  /\ pre.history # <<>>
  /\ pre.userName # <<>>
  /\ \A k \in Keys : IsSome(pre.storage[k])

\* C8 as stated: whatever well-formed JSON array the rating entry holds at
\* the first mount (or none), the rating vector always has six entries, each
\* an integer in 0..100.
SixRatings(v) == Len(v) = NumLevels /\ \A i \in 1..Len(v) : v[i] \in 0..SliderMax
BootIsArray == boot = None \/ ParseArray(Get(boot)).ok
C8_AnyArrayKeepsSixRatings == BootIsArray => SixRatings(levelValues)

\* C8 amended: when the rating entry found at the first mount is absent or a
\* JSON array of six integers in 0..100, the rating vector always has six
\* entries, each an integer in 0..100.
BootIsSixRatings ==
  boot = None \/ (ParseArray(Get(boot)).ok /\ SixRatings(ParseArray(Get(boot)).val))
C8_SixRatingsKept == BootIsSixRatings => SixRatings(levelValues)

C8_Witness ==
  /\ boot = Some(SixInRange)
  /\ last.op = "reset" /\ Quiescent
  /\ pre.levelValues # DefaultLevelValues
  /\ pre.levelValues # ParseArray(SixInRange).val

\* C9: in every quiescent state storage mirrors memory: each entry holds the
\* whole current value, an absent entry standing for the default, so that a
\* load from this storage yields the memory as it is.
ReloadedMemory ==
  LET u == Loaded(storage).updates IN
  [levelValues |-> IF IsSome(u.levelValues) THEN Get(u.levelValues) ELSE DefaultLevelValues,
   history |-> IF IsSome(u.history) THEN Get(u.history) ELSE <<>>,
   userName |-> IF IsSome(u.userName) THEN Get(u.userName) ELSE <<>>]

C9_StorageMirrorsMemory ==
  (Quiescent /\ ~crashed) =>
    /\ IF IsSome(storage[ValuesKey])
       THEN storage[ValuesKey] = Some(StringifyArray(levelValues))
       ELSE levelValues = DefaultLevelValues
    /\ IF IsSome(storage[UserNameKey])
       THEN storage[UserNameKey] = Some(userName)
       ELSE userName = <<>>
    /\ IF IsSome(storage[HistoryKey])
       THEN storage[HistoryKey] = Some(StringifyHistory(history))
       ELSE history = <<>>
    /\ ~Loaded(storage).threw
    /\ ReloadedMemory = Memory

C9_Witness ==
  /\ Quiescent /\ last.op = "name"
  /\ Len(history) >= 1
  /\ history[1].userName # userName
  /\ levelValues # DefaultLevelValues
  /\ userName = <<"A", "\"">>

\* C10: in every step of a user event or of the rendering that follows it,
\* the history stays as it is, or gains exactly one snapshot at its end (a
\* save), or becomes empty (a confirmed reset).
C10_AppendOnly ==
  [][ last'.op \in UserEvents =>
        \/ history' = history
        \/ /\ last'.op = "save"
           /\ Len(history') = Len(history) + 1
           /\ IsPrefix(history, history')
        \/ /\ last'.op = "reset" /\ last'.confirmed
           /\ history' = <<>> ]_vars

C10_Witness ==
  /\ ConfirmedReset /\ Quiescent
  /\ Len(pre.history) = 2
  /\ pre.history[1] # pre.history[2]

====
